---- MODULE Spec2Model ----
(***************************************************************************)
(* Model of my_app.py: the module-level load of netflix_titles.csv, the    *)
(* pandas preprocessing (fillna, duration extraction, genre explode,       *)
(* release_year coercion), the Dash layout and the update_dashboard        *)
(* callback that recomputes the five figures from the three filter inputs. *)
(*                                                                         *)
(* Cells of the CSV are text.  A missing value (NaN / NaT) of a text       *)
(* column is the string NA, of a numeric column the number NaN.            *)
(***************************************************************************)
EXTENDS Integers, Sequences, FiniteSets, TLC

VARIABLES phase, csv, df, attempts, filters, inflight, last, shown

vars == <<phase, csv, df, attempts, filters, inflight, last, shown>>

(***************************************************************************)
(* Bounds of the model.                                                    *)
(***************************************************************************)
MaxRows == 2
MaxInFlight == 1

(***************************************************************************)
(* Text helpers (Python str / re semantics on the cells).                  *)
(***************************************************************************)
NA == "NaN"
NaN == -1

Ch(s, i) == SubSeq(s, i, i)

Digits == {"0", "1", "2", "3", "4", "5", "6", "7", "8", "9"}

DigitVal(c) ==
  CASE c = "0" -> 0 [] c = "1" -> 1 [] c = "2" -> 2 [] c = "3" -> 3
    [] c = "4" -> 4 [] c = "5" -> 5 [] c = "6" -> 6 [] c = "7" -> 7
    [] c = "8" -> 8 [] c = "9" -> 9

IsDigits(s) == Len(s) > 0 /\ \A i \in 1..Len(s) : Ch(s, i) \in Digits

RECURSIVE ParseInt(_)
ParseInt(s) ==
  IF Len(s) = 0 THEN 0
  ELSE 10 * ParseInt(SubSeq(s, 1, Len(s) - 1)) + DigitVal(Ch(s, Len(s)))

\* str.find: the first index at which sub occurs in s, 0 when it does not.
StartsAt(s, sub, i) ==
  i + Len(sub) - 1 <= Len(s) /\ SubSeq(s, i, i + Len(sub) - 1) = sub

Find(s, sub) ==
  IF \E i \in 1..(Len(s) + 1) : StartsAt(s, sub, i)
  THEN CHOOSE i \in 1..(Len(s) + 1) :
         StartsAt(s, sub, i) /\ \A j \in 1..(i - 1) : ~StartsAt(s, sub, j)
  ELSE 0

\* str.split(sep) of Python for a non-empty separator.
RECURSIVE Split(_, _)
Split(s, sep) ==
  LET k == Find(s, sep)
  IN IF k = 0 THEN <<s>>
     ELSE <<SubSeq(s, 1, k - 1)>> \o Split(SubSeq(s, k + Len(sep), Len(s)), sep)

\* re: the pattern language of the cells of the model is literal characters,
\* the wildcard "." and a quantifier character.  A pattern that starts with a
\* quantifier does not compile (re.error: nothing to repeat).
Quantifiers == {"?", "*", "+"}

ReError(pat) == Len(pat) > 0 /\ Ch(pat, 1) \in Quantifiers

ReMatchAt(pat, s, i) ==
  /\ i + Len(pat) - 1 <= Len(s)
  /\ \A j \in 1..Len(pat) : Ch(pat, j) = "." \/ Ch(pat, j) = Ch(s, i + j - 1)

\* re.search(pat, s) for a pattern that compiles.
ReSearch(pat, s) == \E i \in 1..(Len(s) + 1) : ReMatchAt(pat, s, i)

(***************************************************************************)
(* The CSV.  RowPool holds the rows a published netflix_titles.csv is made *)
(* of in the model; an empty cell is "".                                   *)
(***************************************************************************)
Row(title, type, country, date_added, release_year, duration, listed_in) ==
  [title |-> title, type |-> type, country |-> country,
   date_added |-> date_added, release_year |-> release_year,
   duration |-> duration, listed_in |-> listed_in]

RowPool ==
  << Row("A", "Movie", "India", "September 9, 2019", "2019", "90 min", "Comedy"),
     Row("B", "TV Show", "USA", "January 1, 2020", "2020", "2 Seasons", "Drama, Comedy"),
     Row("C", "Movie", "India, United States", "", "2020", "", ""),
     Row("D", "TV Show", "United States, Canada", "July 1, 2021", "", "1 Season", "Drama"),
     Row("E", "Movie", "", "not a date", "abc", "long", "Comedy"),
     Row("F", "Movie", "U.S.", "May 5, 2020", "2019", "100 min", "Drama"),
     Row("G", "Movie", "USSR", "May 6, 2020", "2019", "95 min", "Drama, Classic"),
     Row("H", "TV Show", "?", "March 3, 2021", "2021", "3 Seasons", "Comedy") >>

RECURSIVE SeqsUpTo(_, _)
SeqsUpTo(S, n) ==
  IF n = 0 THEN {<<>>}
  ELSE LET shorter == SeqsUpTo(S, n - 1)
       IN shorter \cup {Append(q, x) : q \in shorter, x \in S}

\* The files the sources can hold: at most MaxRows rows of the pool, with
\* repetition, in the order of the pool (the order of the rows of a file
\* decides only the order of equal counts).
Datasets ==
  {[i \in DOMAIN q |-> RowPool[q[i]]] :
     q \in {p \in SeqsUpTo(DOMAIN RowPool, MaxRows) :
              \A i \in 1..(Len(p) - 1) : p[i] <= p[i + 1]}}

(***************************************************************************)
(* pandas: read_csv and the preprocessing of lines 25-49.                  *)
(***************************************************************************)
\* read_csv: the default na_values turn these cells into NaN.
NaValues == {"", "NA", "N/A", "NaN", "nan", "null", "NULL", "n/a", "<NA>", "#N/A"}

ReadCell(s) == IF s \in NaValues THEN NA ELSE s

read_csv(file) ==
  [i \in DOMAIN file |->
     [c \in DOMAIN file[i] |-> ReadCell(file[i][c])] @@ [idx |-> i]]

\* pd.to_datetime(errors='coerce').dt.year: the year of a date written
\* "<Month> <day>, <year>", NaN for a cell that is missing or no date.
year_added(cell) ==
  LET n == Len(cell)
  IN IF cell # NA /\ n >= 6 /\ IsDigits(SubSeq(cell, n - 3, n))
          /\ SubSeq(cell, n - 5, n - 4) = ", "
     THEN ParseInt(SubSeq(cell, n - 3, n))
     ELSE NaN

\* fillna('Unknown').
fillna(cell) == IF cell = NA THEN "Unknown" ELSE cell

\* str.extract(r'(\d+)').astype(float): the first run of digits.
duration_num(cell) ==
  IF cell = NA \/ ~\E i \in 1..Len(cell) : Ch(cell, i) \in Digits THEN NaN
  ELSE LET a == CHOOSE i \in 1..Len(cell) :
                  Ch(cell, i) \in Digits /\ \A j \in 1..(i - 1) : Ch(cell, j) \notin Digits
           b == CHOOSE i \in a..Len(cell) :
                  /\ \A j \in a..i : Ch(cell, j) \in Digits
                  /\ (i = Len(cell) \/ Ch(cell, i + 1) \notin Digits)
       IN ParseInt(SubSeq(cell, a, b))

\* pd.to_numeric(errors='coerce') of a cell holding an unsigned integer or not.
to_numeric(cell) == IF cell # NA /\ IsDigits(cell) THEN ParseInt(cell) ELSE NaN

\* str.split(', '): NaN stays NaN.
str_split(cell) == IF cell = NA THEN NA ELSE Split(cell, ", ")

\* ExplodeRow keeping the first element of the list only.
ExplodeRowFirst(r, col) ==
  IF r[col] = NA THEN <<r>> ELSE <<[r EXCEPT ![col] = r[col][1]]>>

\* DataFrame.explode of one row: one row per element of the list, the index
\* label repeated; a NaN cell is a scalar and gives the row back unchanged.
ExplodeRow(r, col) ==
  IF r[col] = NA THEN <<r>>
  ELSE [k \in 1..Len(r[col]) |-> [r EXCEPT ![col] = r[col][k]]]

RECURSIVE explode(_, _)
explode(rows, col) ==
  IF rows = <<>> THEN <<>>
  ELSE ExplodeRow(Head(rows), col) \o explode(Tail(rows), col)

\* Lines 26-49 on one row, before the explode.
CleanRow(r) ==
  [idx |-> r.idx, title |-> r.title, type |-> r.type,
   country |-> fillna(r.country),
   year_added |-> year_added(r.date_added),
   release_year |-> to_numeric(r.release_year),
   duration_num |-> duration_num(r.duration),
   genres |-> str_split(r.listed_in)]

\* The module-level df after line 49.
Preprocess(raw) == explode([i \in DOMAIN raw |-> CleanRow(raw[i])], "genres")

(***************************************************************************)
(* The layout (lines 56-117): the values the three filter widgets offer.   *)
(***************************************************************************)
HeadN == 10

Range(q) == {q[i] : i \in DOMAIN q}

\* Series.value_counts(): the count of each value that is not NaN.
value_counts(rows, col) ==
  [k \in {rows[i][col] : i \in DOMAIN rows} \ {NA} |->
     Cardinality({i \in DOMAIN rows : rows[i][col] = k})]

FirstPos(rows, col, k) == CHOOSE i \in DOMAIN rows :
  rows[i][col] = k /\ \A j \in 1..(i - 1) : rows[j][col] # k

\* value_counts().head(n): the n most frequent values, by descending count,
\* equal counts in the order of first appearance.
head(rows, col, n) ==
  LET vc == value_counts(rows, col)
      Before(a, b) == \/ vc[a] > vc[b]
                      \/ vc[a] = vc[b] /\ FirstPos(rows, col, a) < FirstPos(rows, col, b)
      keep == {k \in DOMAIN vc : Cardinality({a \in DOMAIN vc : Before(a, k)}) < n}
  IN [k \in keep |-> vc[k]]

Years(d) == {d[i].release_year : i \in DOMAIN d} \ {NaN}

Min(S) == CHOOSE x \in S : \A y \in S : x <= y
Max(S) == CHOOSE x \in S : \A y \in S : x >= y

\* int(df['release_year'].min()) of line 75 raises ValueError on NaN: the
\* minimum of a column with no year at all (an empty table too).
LayoutRaises(d) == Years(d) = {}

\* year-slider: min, max, step 1.
SliderRanges(d) ==
  {<<lo, hi>> \in (Min(Years(d))..Max(Years(d))) \X (Min(Years(d))..Max(Years(d))) : lo <= hi}

TypeOptions == {"All", "Movie", "TV Show"}

\* country-dropdown: All and the ten most frequent cells of df['country'].
CountryOptions(d) == {"All"} \cup DOMAIN head(d, "country", HeadN)

Filter(years, type, country) == [years |-> years, type |-> type, country |-> country]

FilterStates(d) ==
  {Filter(y, t, c) : y \in SliderRanges(d), t \in TypeOptions, c \in CountryOptions(d)}

\* The values of the widgets when the page opens.
DefaultFilter(d) == Filter(<<Min(Years(d)), Max(Years(d))>>, "All", "All")

(***************************************************************************)
(* update_dashboard (lines 130-218).                                       *)
(***************************************************************************)
\* YearFilter with the upper end of the range excluded.
YearFilterExclusive(d, years) ==
  SelectSeq(d, LAMBDA r : /\ r.release_year # NaN
                          /\ r.release_year >= years[1]
                          /\ r.release_year < years[2])

\* Lines 132-135: a comparison with NaN is False.
YearFilter(d, years) ==
  SelectSeq(d, LAMBDA r : /\ r.release_year # NaN
                          /\ r.release_year >= years[1]
                          /\ r.release_year <= years[2])

\* TypeFilter without the test for All: the comparison is always made.
TypeFilterNoAll(d, type) == SelectSeq(d, LAMBDA r : r.type = type)

\* Lines 137-138.
TypeFilter(d, type) ==
  IF type # "All" THEN SelectSeq(d, LAMBDA r : r.type = type) ELSE d

\* Line 141: Series.str.contains(pat, na=False), regex=True by default.
str_contains(cell, pat) == cell # NA /\ ReSearch(pat, cell)

\* Lines 140-141.
CountryFilter(d, country) ==
  IF country # "All" THEN SelectSeq(d, LAMBDA r : str_contains(r.country, country)) ELSE d

filtered_df(d, f) ==
  CountryFilter(TypeFilter(YearFilter(d, f.years), f.type), f.country)

\* Line 141 raises re.error when the selected country is no regular expression.
Raises(d, f) == f.country # "All" /\ ReError(f.country)

\* 1. Lines 144-145.
type_counts(fd) == value_counts(fd, "type")

\* 2. Line 158.
genre_counts(fd) == head(fd, "genres", HeadN)

\* 3. Line 171: groupby drops the rows with a NaN key.
timeline_df(fd) ==
  LET keys == {<<fd[i].year_added, fd[i].type>> : i \in {j \in DOMAIN fd : fd[j].year_added # NaN}}
  IN [k \in keys |->
        Cardinality({i \in DOMAIN fd : fd[i].year_added = k[1] /\ fd[i].type = k[2]})]

\* 4. Line 183 and the columns the scatter plot reads.
scatter_df(fd) ==
  LET kept == SelectSeq(fd, LAMBDA r : r.duration_num # NaN)
  IN [i \in DOMAIN kept |->
        [release_year |-> kept[i].release_year, duration_num |-> kept[i].duration_num,
         type |-> kept[i].type, title |-> kept[i].title]]

\* 5. Lines 201-205.
exploded_countries(fd) ==
  explode([i \in DOMAIN fd |-> [fd[i] EXCEPT !.country = str_split(fd[i].country)]], "country")

country_counts(fd) == value_counts(exploded_countries(fd), "country")

\* Line 218: the five figures, by the data each is drawn from.
Figures(fd) ==
  <<type_counts(fd), genre_counts(fd), timeline_df(fd), scatter_df(fd), country_counts(fd)>>

update_dashboard(d, f) == Figures(filtered_df(d, f))

\* df_after_call with the filtered frame assigned to the module-level df.
df_after_call_global(d, f) == filtered_df(d, f)

\* The module-level df after a call: boolean indexing, assign and explode
\* return new frames, the callback assigns to locals only.
df_after_call(d, f) == d

(***************************************************************************)
(* The process: module load (lines 13-49), layout, serve, and the page     *)
(* whose widgets post the callback.                                        *)
(***************************************************************************)
NoFigures == [f |-> "none", figs |-> <<>>]

\* render replacing the first figure only once figures are on display.
renderFirstOnly(old, f, figs) ==
  [f |-> f, figs |-> IF old.figs = <<>> THEN figs ELSE [old.figs EXCEPT ![1] = figs[1]]]

\* Lines 120-129 and 218: one callback with five Outputs; the page replaces
\* the five figures by the five values of one return.
render(old, f, figs) == [f |-> f, figs |-> figs]

\* Line 16 and the bare except of line 17.
AfterUrl(outcome) == IF outcome = "ok" THEN "preprocess" ELSE "load_local_utf8"

\* AfterLocalUtf8 with the FileNotFoundError handler swallowing the error.
AfterLocalUtf8Swallow(outcome) ==
  CASE outcome = "ok" -> "preprocess"
    [] outcome = "UnicodeDecodeError" -> "load_local_latin1"
    [] outcome = "FileNotFoundError" -> "preprocess"
    [] OTHER -> "aborted"

\* Lines 18-23: only UnicodeDecodeError and FileNotFoundError are caught.
AfterLocalUtf8(outcome) ==
  CASE outcome = "ok" -> "preprocess"
    [] outcome = "UnicodeDecodeError" -> "load_local_latin1"
    [] outcome = "FileNotFoundError" -> "aborted"
    [] OTHER -> "aborted"

\* Line 21, inside the except clause: an exception here ends the process.
AfterLocalLatin1(outcome) == IF outcome = "ok" THEN "preprocess" ELSE "aborted"

\* Lines 56-117.
AfterLayout(d) == IF LayoutRaises(d) THEN "aborted" ELSE "main"

\* The files of the full lifecycle.
ServedFiles ==
  { <<>>,
    <<RowPool[1], RowPool[2]>>,
    <<RowPool[5]>>,
    <<RowPool[8]>> }

Init ==
  /\ phase = "load_url"
  /\ csv \in ServedFiles
  /\ df = <<>>
  /\ attempts = <<>>
  /\ filters = "none"
  /\ inflight = {}
  /\ last = "none"
  /\ shown = NoFigures

Read(source, outcome, next) ==
  /\ attempts' = Append(attempts, [source |-> source, outcome |-> outcome])
  /\ phase' = next
  /\ df' = IF outcome = "ok" THEN read_csv(csv) ELSE df
  /\ UNCHANGED <<csv, filters, inflight, last, shown>>

LoadUrl ==
  /\ phase = "load_url"
  /\ \E outcome \in {"ok", "error"} : Read("url", outcome, AfterUrl(outcome))

LoadLocalUtf8 ==
  /\ phase = "load_local_utf8"
  /\ \E outcome \in {"ok", "UnicodeDecodeError", "FileNotFoundError", "ParserError"} :
       Read("local_utf8", outcome, AfterLocalUtf8(outcome))

LoadLocalLatin1 ==
  /\ phase = "load_local_latin1"
  /\ \E outcome \in {"ok", "error"} :
       Read("local_latin1", outcome, AfterLocalLatin1(outcome))

PreprocessData ==
  /\ phase = "preprocess"
  /\ df' = Preprocess(df)
  /\ phase' = "layout"
  /\ UNCHANGED <<csv, attempts, filters, inflight, last, shown>>

Layout ==
  /\ phase = "layout"
  /\ phase' = AfterLayout(df)
  /\ UNCHANGED <<csv, df, attempts, filters, inflight, last, shown>>

\* Lines 221-223.
Serve ==
  /\ phase = "main"
  /\ phase' = "serving"
  /\ UNCHANGED <<csv, df, attempts, filters, inflight, last, shown>>

\* A browser opens the page: the widgets hold their initial values and the
\* callback is posted once with them.
OpenPage ==
  /\ phase = "serving"
  /\ phase' = "open"
  /\ filters' = DefaultFilter(df)
  /\ inflight' = {DefaultFilter(df)}
  /\ UNCHANGED <<csv, df, attempts, last, shown>>

OneWidget(f, g) ==
  Cardinality({k \in {"years", "type", "country"} : f[k] # g[k]}) = 1

\* The user moves one widget: the callback is posted with the three values.
ChangeFilter ==
  /\ phase = "open"
  /\ Cardinality(inflight) < MaxInFlight
  /\ \E f \in FilterStates(df) :
       /\ OneWidget(filters, f)
       /\ filters' = f
       /\ inflight' = inflight \cup {f}
  /\ UNCHANGED <<phase, csv, df, attempts, last, shown>>

\* A posted callback returns: the page shows its five figures.
CallbackReturns ==
  /\ phase = "open"
  /\ \E f \in inflight :
       /\ ~Raises(df, f)
       /\ shown' = render(shown, f, update_dashboard(df, f))
       /\ df' = df_after_call(df, f)
       /\ inflight' = inflight \ {f}
  /\ last' = "ok"
  /\ UNCHANGED <<phase, csv, attempts, filters>>

\* A posted callback raises: the server answers with an error and the page
\* keeps what it shows.
CallbackRaises ==
  /\ phase = "open"
  /\ \E f \in inflight :
       /\ Raises(df, f)
       /\ df' = df_after_call(df, f)
       /\ inflight' = inflight \ {f}
  /\ last' = "error"
  /\ UNCHANGED <<phase, csv, attempts, filters, shown>>

Next ==
  \/ LoadUrl
  \/ LoadLocalUtf8
  \/ LoadLocalLatin1
  \/ PreprocessData
  \/ Layout
  \/ Serve
  \/ OpenPage
  \/ ChangeFilter
  \/ CallbackReturns
  \/ CallbackRaises

Spec == Init /\ [][Next]_vars

(***************************************************************************)
(* The recomputation alone: the table of any file of at most MaxRows rows, *)
(* already served, and one synchronous call per filter change.             *)
(***************************************************************************)
InitCalc ==
  /\ csv \in Datasets
  /\ ~LayoutRaises(Preprocess(read_csv(csv)))
  /\ df = Preprocess(read_csv(csv))
  /\ phase = "open"
  /\ attempts = <<[source |-> "url", outcome |-> "ok"]>>
  /\ filters = DefaultFilter(df)
  /\ inflight = {}
  /\ last = "none"
  /\ shown = NoFigures

RecomputeReturns ==
  /\ \E f \in FilterStates(df) :
       /\ f = filters \/ OneWidget(filters, f)
       /\ ~Raises(df, f)
       /\ filters' = f
       /\ shown' = render(shown, f, update_dashboard(df, f))
       /\ df' = df_after_call(df, f)
  /\ last' = "ok"
  /\ UNCHANGED <<phase, csv, attempts, inflight>>

RecomputeRaises ==
  /\ \E f \in FilterStates(df) :
       /\ f = filters \/ OneWidget(filters, f)
       /\ Raises(df, f)
       /\ filters' = f
       /\ df' = df_after_call(df, f)
  /\ last' = "error"
  /\ UNCHANGED <<phase, csv, attempts, inflight, shown>>

NextCalc == RecomputeReturns \/ RecomputeRaises

SpecCalc == InitCalc /\ [][NextCalc]_vars

(***************************************************************************)
(* Vocabulary of the properties.                                           *)
(***************************************************************************)
\* Figures are on display.
Displayed == shown.figs # <<>>

\* The records of the file and the prepared record of each (not exploded).
Records == DOMAIN csv

Rec(i) == CleanRow(read_csv(csv)[i])

\* The records with a row in the filtered frame of a call with filters f.
KeptIdx(f) == {r.idx : r \in Range(filtered_df(df, f))}

Count(counts, k) == IF k \in DOMAIN counts THEN counts[k] ELSE 0

RECURSIVE SumOver(_, _)
SumOver(counts, keys) ==
  IF keys = {} THEN 0
  ELSE LET k == CHOOSE x \in keys : TRUE
       IN counts[k] + SumOver(counts, keys \ {k})

Total(counts) == SumOver(counts, DOMAIN counts)

\* The cell s contains sub as a substring.
Contains(s, sub) == Find(s, sub) # 0

InYears(r, years) ==
  r.release_year # NaN /\ years[1] <= r.release_year /\ r.release_year <= years[2]

Scenario == <<RowPool[1], RowPool[2]>>

(***************************************************************************)
(* Properties.                                                             *)
(***************************************************************************)
\* C1 (as stated): chart 1 counts each record that passes the filters once,
\* whatever the number of its genres; in the two-record scenario under
\* (2019-2020, All, All) chart 1 is {Movie: 1, TV Show: 1} and chart 2 is
\* {Comedy: 2, Drama: 1}.
C1_RecordCountedOnce ==
  Displayed =>
    /\ \A t \in {"Movie", "TV Show"} :
         Count(shown.figs[1], t) =
           Cardinality({i \in KeptIdx(shown.f) : Rec(i).type = t})
    /\ (csv = Scenario /\ shown.f = Filter(<<2019, 2020>>, "All", "All")) =>
         /\ shown.figs[1] = ("Movie" :> 1 @@ "TV Show" :> 1)
         /\ shown.figs[2] = ("Comedy" :> 2 @@ "Drama" :> 1)

\* C2: the year step of the displayed call keeps exactly the rows whose
\* release_year is present and within the range, both ends included; a row
\* without release_year is kept under no range of the slider; the range
\* (max, max) keeps only the rows of the last year.
C2_YearFilterInclusive ==
  Displayed =>
    /\ \A i \in DOMAIN df :
         (df[i] \in Range(YearFilter(df, shown.f.years))) <=> InYears(df[i], shown.f.years)
    /\ \A r \in Range(filtered_df(df, shown.f)) : InYears(r, shown.f.years)
    /\ \A y \in SliderRanges(df) : \A r \in Range(YearFilter(df, y)) :
         r.release_year # NaN
    /\ \A r \in Range(YearFilter(df, <<Max(Years(df)), Max(Years(df))>>)) :
         r.release_year = Max(Years(df))
    /\ \A i \in DOMAIN df :
         df[i].release_year = Max(Years(df)) =>
           df[i] \in Range(YearFilter(df, <<Max(Years(df)), Max(Years(df))>>))

\* C2 witness: the file holds a record without release_year, and the
\* figures of a (max, max) call that kept rows are on display.
C2_Witness ==
  /\ Displayed
  /\ \E i \in DOMAIN df : df[i].release_year = NaN
  /\ shown.f.years = <<Max(Years(df)), Max(Years(df))>>
  /\ Len(filtered_df(df, shown.f)) > 0

\* C3 (as stated): with a country selected, the country step keeps exactly
\* the rows whose country cell contains the selected name as a substring; with
\* All it removes no row.
C3_CountrySubstring ==
  Displayed =>
    LET before == TypeFilter(YearFilter(df, shown.f.years), shown.f.type)
    IN IF shown.f.country = "All"
       THEN filtered_df(df, shown.f) = before
       ELSE Range(filtered_df(df, shown.f)) =
              {r \in Range(before) : Contains(r.country, shown.f.country)}

\* f1 is at least as restrictive as f2 in every component.
Narrower(f1, f2) ==
  /\ f2.years[1] <= f1.years[1] /\ f1.years[2] <= f2.years[2]
  /\ f1.type = f2.type \/ f2.type = "All"
  /\ f1.country = f2.country \/ f2.country = "All"

\* C4: for the displayed call f1 and every filter state f2 of the widgets
\* that f1 narrows and whose call returns, every row that chart 1 counts
\* under f1 is counted under f2, and each per-type count under f1 is at most
\* the count under f2.
C4_NarrowingMonotone ==
  Displayed =>
    \A f2 \in FilterStates(df) :
      (Narrower(shown.f, f2) /\ ~Raises(df, f2)) =>
        /\ Range(filtered_df(df, shown.f)) \subseteq Range(filtered_df(df, f2))
        /\ \A t \in DOMAIN shown.figs[1] :
             shown.figs[1][t] <= Count(update_dashboard(df, f2)[1], t)

\* C4 witness: the displayed call is strictly narrower than a filter state
\* under which chart 1 counts strictly more.
C4_Witness ==
  /\ Displayed
  /\ Len(filtered_df(df, shown.f)) > 0
  /\ \E f2 \in FilterStates(df) :
       /\ Narrower(shown.f, f2) /\ f2 # shown.f /\ ~Raises(df, f2)
       /\ Total(update_dashboard(df, f2)[1]) > Total(shown.figs[1])

\* The number of genres the listed_in cell of a record names; none when the
\* cell is missing.
NGenres(i) ==
  IF ReadCell(csv[i].listed_in) = NA THEN 0 ELSE Len(Split(csv[i].listed_in, ", "))

\* C5 (as stated): the per-genre counts of the displayed call sum to the
\* number of rows of the filtered exploded frame, a record with N genres
\* having N exploded rows and a record without listed_in none.
C5_SumIsExplodedRows ==
  Displayed =>
    /\ Total(value_counts(filtered_df(df, shown.f), "genres")) =
         Len(filtered_df(df, shown.f))
    /\ \A i \in Records :
         Cardinality({k \in DOMAIN df : df[k].idx = i}) = NGenres(i)

\* C5 (amended): the per-genre counts of the displayed call, over all genres,
\* sum to the number of (record, genre) pairs of the kept records, which is
\* the number of filtered exploded rows whose genre is present; a record
\* with N genres has N exploded rows, a record without listed_in has one
\* exploded row, with no genre, which no genre count includes.
C5_GenreConservation ==
  Displayed =>
    LET fd == filtered_df(df, shown.f)
        vc == value_counts(fd, "genres")
    IN /\ Total(vc) = SumOver([i \in Records |-> NGenres(i)], KeptIdx(shown.f))
       /\ Total(vc) = Cardinality({k \in DOMAIN fd : fd[k].genres # NA})
       /\ NA \notin DOMAIN vc
       /\ \A i \in Records :
            Cardinality({k \in DOMAIN df : df[k].idx = i}) =
              IF NGenres(i) = 0 THEN 1 ELSE NGenres(i)
       /\ \A k \in DOMAIN df : NGenres(df[k].idx) = 0 <=> df[k].genres = NA

\* C5 witness: the displayed call kept a record without listed_in and a
\* record with two genres.
C5_Witness ==
  /\ Displayed
  /\ \E i \in KeptIdx(shown.f) : NGenres(i) = 0
  /\ \E i \in KeptIdx(shown.f) : NGenres(i) = 2

\* C6 (as stated): each kept record adds exactly 1 to the chart-5 count of
\* each country its country cell names, whatever the country filter and
\* however many genres it has.
C6_CountryCountedOncePerRecord ==
  Displayed =>
    \A c \in UNION {Range(Split(Rec(i).country, ", ")) : i \in Records} :
      Count(shown.figs[5], c) =
        Cardinality({i \in KeptIdx(shown.f) : c \in Range(Split(Rec(i).country, ", "))})

\* A record passes the filters as the filtering is described: year in range,
\* type selected or All, country cell containing the selected name or All.
Passes(i, f) ==
  /\ InYears(Rec(i), f.years)
  /\ f.type = "All" \/ Rec(i).type = f.type
  /\ f.country = "All" \/ Contains(Rec(i).country, f.country)

EmptyFigures == << <<>>, <<>>, <<>>, <<>>, <<>> >>

\* C8 (as stated): a call whose filters match no record does not raise and
\* returns five figures, each empty.
C8_EmptyResultNoRaise ==
  (last # "none" /\ \A i \in Records : ~Passes(i, filters)) =>
    /\ last = "ok"
    /\ shown.f = filters
    /\ shown.figs = EmptyFigures

SourceOrder == <<"url", "local_utf8", "local_latin1">>

LoadPhases == {"load_url", "load_local_utf8", "load_local_latin1"}

Attempted(source) == \E i \in DOMAIN attempts : attempts[i].source = source

Loaded == \E i \in DOMAIN attempts : attempts[i].outcome = "ok"

GaveUp == phase = "aborted" /\ ~Loaded

\* What holds of the load whichever way the encoding fallback is read: the
\* sources are tried in order, the first read that succeeds ends the load
\* with its rows, and the process serves only a loaded table with rows.
LoadCommon ==
  /\ Len(attempts) <= Len(SourceOrder)
  /\ \A i \in DOMAIN attempts : attempts[i].source = SourceOrder[i]
  /\ \A i \in DOMAIN attempts : attempts[i].outcome = "ok" => i = Len(attempts)
  /\ Loaded => phase \notin LoadPhases /\ (csv # <<>> => df # <<>>)
  /\ ~Loaded => phase \in LoadPhases \cup {"aborted"} /\ df = <<>>
  /\ phase \in {"serving", "open"} => Loaded /\ df # <<>>
  /\ GaveUp => Attempted("url") /\ Attempted("local_utf8")

\* C9 (as stated): the sources are tried in order, a read that yields rows
\* ends the load with them, the process never serves without a loaded
\* table, and startup is given up only after the alternate encoding of the
\* local file was tried.
C9_LoadWithEncodingFallback ==
  /\ LoadCommon
  /\ GaveUp => Attempted("local_latin1")

\* C9 (amended): as stated, except that the alternate encoding is tried
\* exactly when the UTF-8 read of the local file fails with
\* UnicodeDecodeError; a missing local file or any other error of that read
\* aborts startup at once.
C9_LoadOrFail ==
  /\ LoadCommon
  /\ Attempted("local_latin1") => attempts[2].outcome = "UnicodeDecodeError"
  /\ (Len(attempts) >= 2 /\ attempts[2].outcome = "UnicodeDecodeError")
       => phase = "load_local_latin1" \/ Attempted("local_latin1")
  /\ (Len(attempts) >= 2 /\ attempts[2].outcome \in {"FileNotFoundError", "ParserError"})
       => GaveUp

\* C9 witness: startup was given up after the remote read, the UTF-8 read
\* and the latin1 read of the local file all failed.
C9_Witness ==
  /\ GaveUp
  /\ Len(attempts) = 3
  /\ attempts[3].outcome = "error"

\* C10: once loaded and prepared the table is the prepared file whatever
\* calls were made, and the figures on display are the figures a call with
\* their filter state computes from the prepared file.
C10_NoHiddenState ==
  /\ phase \in {"layout", "main", "serving", "open"} => df = Preprocess(read_csv(csv))
  /\ Displayed => shown.figs = update_dashboard(Preprocess(read_csv(csv)), shown.f)

\* C10 witness: after the call of the opening page, a call for other
\* filters returned and its figures are on display.
C10_Witness ==
  /\ Displayed
  /\ last = "ok"
  /\ shown.f # DefaultFilter(df)
  /\ Len(filtered_df(df, shown.f)) > 0

====
